---- MODULE Spec2Model ----
(***************************************************************************)
(* Model of word_automata.py: a prefix automaton (trie) of words built by  *)
(* Automaton.add_word and minimised into a DAG by Automaton.compress,      *)
(* which repeatedly calls Automaton.merge_states.                          *)
(*                                                                         *)
(* A State object is a natural number, its allocation index, which is      *)
(* State.count at its creation: the model creates states only as long as   *)
(* State.count is the number of states created, that is before any call    *)
(* of renumber_states.  Python dicts keep insertion                        *)
(* order, so a dict is a sequence of <<key, value>> pairs with distinct    *)
(* keys; a list or tuple is a sequence; a word is a sequence of letters.   *)
(***************************************************************************)
EXTENDS Integers, Sequences, FiniteSets, TLC

Alphabet == {"a", "b"}

\* Longest word passed to add_word / accept_word.
MaxLen == 2
\* Largest lexicon (number of distinct words) given to add_word.
MaxWords == 4
\* Largest value of State.count that add_word may reach.
MaxStates == 7
\* Largest lexicon of an automaton whose client calls merge_states itself,
\* compress() several times, or next() on a generator of its own.
MaxClientWords == 2
\* Largest value of State.count that add_word may reach in such an automaton.
MaxClientStates == 4
\* Longest list a client passes to merge_states.
MaxMergeLen == 2
\* Largest number of compress() calls on one automaton.
MaxRuns == 2

RECURSIVE WordsOfLen(_)
WordsOfLen(n) ==
    IF n = 0 THEN {<<>>}
    ELSE {Append(w, l) : w \in WordsOfLen(n - 1), l \in Alphabet}

\* The words the model passes to add_word and asks accept_word about.
Words == UNION {WordsOfLen(n) : n \in 0..MaxLen}

VARIABLES
    is_final,       \* State.is_final, per state
    number,         \* State.number, per state: its id and its hash
    transitions,    \* State.transitions, per state: dict letter -> state
    parents,        \* State.parents, per state: dict state -> list of letters
    count,          \* State.count: the number of State objects created
    initial_state,  \* Automaton.initial_state
    compressed,     \* Automaton.compressed
    mode,           \* Automaton.mode
    pc,             \* position inside compress(): "idle", "loop", "groups"
    queue,          \* compress: the deque, leftmost element first
    marked,         \* compress: the set of processed states
    signatures,     \* compress: the dict signature -> list of states, what is left of it
    total,          \* compress: count_states() on entry
    entry,          \* compress: the reachable states and their fields on entry
    runs,           \* the number of compress() calls so far
    fused,          \* compress: the states passed to merge_states so far
    gen,            \* a generator made by iter(automaton): its frame
    lexicon,        \* the words passed to successful add_word calls
    op,             \* the last operation run
    arg,            \* merge_states: the list of states of the last call
    known,          \* add_word: the word was in the lexicon before the call
    err             \* the exception it raised, or "none"

vars == <<is_final, number, transitions, parents, count, initial_state,
          compressed, mode, pc, queue, marked, signatures, total, entry, runs,
          fused, gen, lexicon, op, arg, known, err>>

graph == <<is_final, number, transitions, parents, count, initial_state>>

----------------------------------------------------------------------------
(* Python dicts (insertion ordered) as sequences of <<key, value>>.         *)

DictKeys(d) == {d[i][1] : i \in 1..Len(d)}

DictValues(d) == [i \in 1..Len(d) |-> d[i][2]]

DictHas(d, k) == \E i \in 1..Len(d) : d[i][1] = k

\* d.get(k, default)
DictGet(d, k, default) ==
    IF DictHas(d, k)
    THEN d[CHOOSE i \in 1..Len(d) : d[i][1] = k][2]
    ELSE default

\* d[k] = v: an existing key keeps its position, a new key goes last.
DictSet(d, k, v) ==
    IF DictHas(d, k)
    THEN [i \in 1..Len(d) |-> IF d[i][1] = k THEN <<k, v>> ELSE d[i]]
    ELSE Append(d, <<k, v>>)

Range(s) == {s[i] : i \in 1..Len(s)}

None == -1

----------------------------------------------------------------------------
(* The heap of State objects, as a record the operations transform.         *)

Heap == [is_final |-> is_final, number |-> number,
         transitions |-> transitions, parents |-> parents, count |-> count]

\* State.__init__(parents=ps): allocates state number h.count.
NewState(h, ps) ==
    LET n == h.count
        ext(f, v) == [x \in 0..n |-> IF x = n THEN v ELSE f[x]]
    IN  [is_final    |-> ext(h.is_final, FALSE),
         number      |-> ext(h.number, h.count),
         transitions |-> ext(h.transitions, <<>>),
         parents     |-> ext(h.parents, ps),
         count       |-> n + 1]

SetTransition(h, s, letter, target) ==
    [h EXCEPT !.transitions[s] = DictSet(@, letter, target)]

\* next_state without the test of line 36: a new state for every letter.
NextStateAlwaysNew(h, s, letter) ==
    SetTransition(NewState(h, <<<<s, <<letter>>>>>>), s, letter, h.count)

\* next_state that registers the state itself instead of the new state.
NextStateSelf(h, s, letter) ==
    IF DictHas(h.transitions[s], letter)
    THEN h
    ELSE SetTransition(NewState(h, <<<<s, <<letter>>>>>>), s, letter, s)

\* State.next_state(letter, add_transition=True): the heap afterwards.
NextStateHeap(h, s, letter) ==
    IF DictHas(h.transitions[s], letter)
    THEN h
    ELSE SetTransition(NewState(h, <<<<s, <<letter>>>>>>), s, letter, h.count)

\* State.next_state(letter): the target, or None.
next_state(h, s, letter) == DictGet(h.transitions[s], letter, None)

\* Automaton.add_word, the loop from current_state over the rest of the word.
RECURSIVE AddWordFrom(_, _, _)
AddWordFrom(h, current_state, word) ==
    IF word = <<>>
    THEN [h EXCEPT !.is_final[current_state] = TRUE]
    ELSE LET h2 == NextStateHeap(h, current_state, Head(word))
         IN  AddWordFrom(h2, next_state(h2, current_state, Head(word)), Tail(word))

\* Automaton.accept_word, the loop from current_state over the rest of the word.
RECURSIVE AcceptFrom(_, _, _)
AcceptFrom(h, current_state, word) ==
    IF word = <<>>
    THEN h.is_final[current_state]
    ELSE LET n == next_state(h, current_state, Head(word))
         IN  IF n = None THEN FALSE ELSE AcceptFrom(h, n, Tail(word))

accept_word(word) == AcceptFrom(Heap, initial_state, word)

----------------------------------------------------------------------------
(* Automaton.__iter__ in its two modes.                                     *)

\* A 'mark' traversal that marks nothing: every state popped is yielded.
RECURSIVE IterMarkForgetful(_, _, _)
IterMarkForgetful(h, stack, seen) ==
    IF stack = <<>>
    THEN <<>>
    ELSE LET state == stack[Len(stack)]
             rest  == SubSeq(stack, 1, Len(stack) - 1)
         IN  <<state>> \o
             IterMarkForgetful(h, rest \o DictValues(h.transitions[state]),
                               seen)

\* mode 'mark': the list of states yielded, from a stack and a marked set.
\* The membership test of line 78 hashes a state by its number; no number
\* changes during the traversals this operator stands for.
RECURSIVE IterMark(_, _, _)
IterMark(h, stack, seen) ==
    IF stack = <<>>
    THEN <<>>
    ELSE LET state == stack[Len(stack)]
             rest  == SubSeq(stack, 1, Len(stack) - 1)
         IN  IF state \in seen
             THEN IterMark(h, rest, seen)
             ELSE <<state>> \o
                  IterMark(h, rest \o DictValues(h.transitions[state]),
                           seen \cup {state})

MarkOrder(h, root) == IterMark(h, <<root>>, {})

\* mode 'history': the list of <<history, state>> yielded.  The fuel bounds
\* the number of states yielded, so that a cyclic graph gives a finite list.
RECURSIVE IterHistory(_, _, _)
IterHistory(h, stack, fuel) ==
    IF stack = <<>> \/ fuel = 0
    THEN <<>>
    ELSE LET top   == stack[Len(stack)]
             rest  == SubSeq(stack, 1, Len(stack) - 1)
             items == h.transitions[top[2]]
             push  == [i \in 1..Len(items) |->
                          <<Append(top[1], items[i][1]), items[i][2]>>]
         IN  <<top>> \o IterHistory(h, rest \o push, fuel - 1)

\* More states than a history traversal yields on an automaton that
\* recognises words of the model only: one per prefix of a word.
HistoryFuel == 2 * Cardinality(Words)

HistoryOrder(h, root) == IterHistory(h, <<<<<<>>, root>>>>, HistoryFuel)

\* A get_leaves that does not take the initial state for a leaf.
LeavesBelowRoot(h, root) ==
    SelectSeq(MarkOrder(h, root),
              LAMBDA s : Len(h.transitions[s]) = 0 /\ s # root)

\* Automaton.get_leaves
LeavesOf(h, root) ==
    SelectSeq(MarkOrder(h, root), LAMBDA s : Len(h.transitions[s]) = 0)

get_leaves == LeavesOf(Heap, initial_state)

\* count_words over a 'mark' traversal: accepting states, not words.
CountWordsMarked(h, root) ==
    Len(SelectSeq(MarkOrder(h, root), LAMBDA s : h.is_final[s]))

\* Automaton.count_words
CountWordsOf(h, root) ==
    Len(SelectSeq(HistoryOrder(h, root), LAMBDA e : h.is_final[e[2]]))

count_words == CountWordsOf(Heap, initial_state)

\* Automaton.count_states
CountStatesOf(h, root) == Len(MarkOrder(h, root))

count_states == CountStatesOf(Heap, initial_state)

\* The states a traversal from the initial state reaches.
Reachable == Range(MarkOrder(Heap, initial_state))

----------------------------------------------------------------------------
(* Automaton.merge_states                                                   *)

\* lines 183-187: the transitions of member s, from item i on, are copied
\* into new_state; a different target already there is the critical error.
RECURSIVE MergeTransitions(_, _, _, _)
MergeTransitions(h, new_state, items, i) ==
    IF i > Len(items)
    THEN [h |-> h, err |-> "none"]
    ELSE LET letter == items[i][1]
             child  == items[i][2]
             c      == DictGet(h.transitions[new_state], letter, child)
         IN  IF c # child
             THEN [h |-> h, err |-> "RuntimeError"]
             ELSE MergeTransitions(SetTransition(h, new_state, letter, child),
                                   new_state, items, i + 1)

\* lines 189-190: p.transitions[l] = new_state for the letters from j on.
RECURSIVE RedirectLetters(_, _, _, _, _)
RedirectLetters(h, new_state, p, letters, j) ==
    IF j > Len(letters)
    THEN h
    ELSE RedirectLetters(SetTransition(h, p, letters[j], new_state),
                         new_state, p, letters, j + 1)

\* lines 188-190: every recorded parent of the member, from item i on.
RECURSIVE RedirectParents(_, _, _, _)
RedirectParents(h, new_state, items, i) ==
    IF i > Len(items)
    THEN h
    ELSE RedirectParents(
             RedirectLetters(h, new_state, items[i][1], items[i][2], 1),
             new_state, items, i + 1)

\* line 191: new_state.parents.update(s.parents), from item i on.
RECURSIVE UpdateParents(_, _, _)
UpdateParents(d, items, i) ==
    IF i > Len(items)
    THEN d
    ELSE UpdateParents(DictSet(d, items[i][1], items[i][2]), items, i + 1)

\* The loop with line 190 writing s.transitions[l] instead of
\* p.transitions[l].
RECURSIVE MergeMembersSelf(_, _, _, _)
MergeMembersSelf(h, new_state, states, k) ==
    IF k > Len(states)
    THEN [h |-> h, err |-> "none"]
    ELSE LET s  == states[k]
             r1 == MergeTransitions(h, new_state, h.transitions[s], 1)
             self_items == [i \in 1..Len(r1.h.parents[s]) |->
                               <<s, r1.h.parents[s][i][2]>>]
             h2 == RedirectParents(r1.h, new_state, self_items, 1)
             h3 == [h2 EXCEPT !.parents[new_state] =
                                  UpdateParents(@, h2.parents[s], 1)]
         IN  IF r1.err # "none"
             THEN r1
             ELSE MergeMembersSelf(h3, new_state, states, k + 1)

\* lines 182-192: the loop over the members, from member k on.
RECURSIVE MergeMembers(_, _, _, _)
MergeMembers(h, new_state, states, k) ==
    IF k > Len(states)
    THEN [h |-> h, err |-> "none"]
    ELSE LET s  == states[k]
             r1 == MergeTransitions(h, new_state, h.transitions[s], 1)
             h2 == RedirectParents(r1.h, new_state, r1.h.parents[s], 1)
             h3 == [h2 EXCEPT !.parents[new_state] =
                                  UpdateParents(@, h2.parents[s], 1)]
         IN  IF r1.err # "none"
             THEN r1
             ELSE MergeMembers(h3, new_state, states, k + 1)

\* merge_states without the check of line 178.
MergeRejectsEmptyOnly(h, states) == Len(states) = 0

\* lines 176-179: the two checks on the argument.
MergeRejects(h, states) ==
    \/ Len(states) = 0
    \/ \E k \in 1..Len(states) : h.is_final[states[k]] # h.is_final[states[1]]

\* The new state is never accepting.
MergedFinalNever(h, states) == FALSE

\* The new state is always accepting.
MergedFinalAlways(h, states) == TRUE

\* line 181: the acceptance of the new state.
MergedFinal(h, states) == h.is_final[states[1]]

\* merge_states(states): the heap afterwards, the exception raised and the
\* state returned.
merge_states(h, states) ==
    IF MergeRejects(h, states)
    THEN [h |-> h, err |-> "ValueError", new_state |-> None]
    ELSE LET new_state == h.count
             h1 == [NewState(h, <<>>) EXCEPT
                        !.is_final[new_state] = MergedFinal(h, states)]
             r  == MergeMembers(h1, new_state, states, 1)
         IN  [h |-> r.h, err |-> r.err,
              new_state |-> IF r.err = "none" THEN new_state ELSE None]

----------------------------------------------------------------------------
(* Automaton.__init__                                                       *)

\* compress() has not been called.
NoEntry == [states |-> {}, is_final |-> <<>>, transitions |-> <<>>,
            compressed |-> FALSE]

\* iter(automaton) has not been called.  The frame of a generator: where
\* it stands (created, suspended at a yield, done, or ended by an error),
\* the mode read at line 67 or 70, which decides the local variables that
\* exist and what the stack holds, the stack, the marked set and the list
\* of the values yielded so far.
NoGenerator == [status |-> "none", mode |-> "none", stack |-> <<>>,
                marked |-> {}, yielded |-> <<>>]

Init ==
    /\ is_final = [n \in {0} |-> FALSE]
    /\ number = [n \in {0} |-> 0]
    /\ transitions = [n \in {0} |-> <<>>]
    /\ parents = [n \in {0} |-> <<>>]
    /\ count = 1
    /\ initial_state = 0
    /\ compressed = FALSE
    /\ mode = "history"
    /\ pc = "idle"
    /\ queue = <<>>
    /\ marked = {}
    /\ signatures = <<>>
    /\ total = 0
    /\ entry = NoEntry
    /\ runs = 0
    /\ fused = {}
    /\ gen = NoGenerator
    /\ lexicon = {}
    /\ op = "init"
    /\ arg = <<>>
    /\ known = FALSE
    /\ err = "none"

SetHeap(h) ==
    /\ is_final' = h.is_final
    /\ number' = h.number
    /\ transitions' = h.transitions
    /\ parents' = h.parents
    /\ count' = h.count

----------------------------------------------------------------------------
(* Automaton.add_word                                                       *)

\* add_word without its check.
AddWordNeverRejects == FALSE

\* line 92: the check that refuses the call.
AddWordRejects == compressed

\* The heap after the loop and the final marking, lines 94-97.
AddWordHeap(word) == AddWordFrom(Heap, initial_state, word)

AddWord(word) ==
    /\ pc = "idle"
    /\ op' = "add_word"
    /\ known' = (word \in lexicon)
    /\ IF AddWordRejects
       THEN /\ err' = "RuntimeError"
            /\ UNCHANGED <<graph, lexicon>>
       ELSE /\ Cardinality(lexicon \cup {word}) <= MaxWords
            /\ AddWordHeap(word).count <= MaxStates
            /\ SetHeap(AddWordHeap(word))
            /\ lexicon' = lexicon \cup {word}
            /\ err' = "none"
            /\ UNCHANGED initial_state
    /\ UNCHANGED <<compressed, mode, pc, queue, marked, signatures, total,
                   entry, runs, fused, gen, arg>>

----------------------------------------------------------------------------
(* Automaton.compress, one step per merge_states call and per state taken   *)
(* from the queue.                                                          *)

\* lines 200-207: the leaves are merged into a single state, which seeds
\* the queue.
CompressStart ==
    /\ pc = "idle"
    /\ LET r == merge_states(Heap, get_leaves)
       IN  /\ SetHeap(r.h)
           /\ err' = r.err
           /\ IF r.err = "none"
              THEN /\ queue' = <<r.new_state>>
                   /\ pc' = "loop"
              ELSE /\ queue' = <<>>
                   /\ pc' = "idle"
    /\ total' = count_states
    /\ entry' = [states |-> Reachable, is_final |-> is_final,
                 transitions |-> transitions, compressed |-> compressed]
    /\ runs' = runs + 1
    /\ fused' = Range(get_leaves)
    /\ mode' = "mark"
    /\ marked' = {}
    /\ signatures' = <<>>
    /\ op' = "compress"
    /\ arg' = get_leaves
    /\ known' = FALSE
    /\ UNCHANGED <<initial_state, compressed, gen, lexicon>>

\* A compress() that takes every parent of a popped state, whatever its
\* other children.
HasUnmarkedChildNever(h, p, done) == FALSE

\* A compress() that never takes a parent of a popped state.
HasUnmarkedChildAlways(h, p, done) == TRUE

\* line 218: some child of p is not processed yet.
HasUnmarkedChild(h, p, done) ==
    \E i \in 1..Len(h.transitions[p]) : h.transitions[p][i][2] \notin done

\* A signature without the acceptance flag.
SignatureNoFinal(h, p) == <<FALSE, h.transitions[p]>>

\* line 220: the signature of p.
Signature(h, p) == <<h.is_final[p], h.transitions[p]>>

\* lines 217-221: the dict of signatures from the parents of the state, from
\* item i on.
RECURSIVE CollectSignatures(_, _, _, _, _)
CollectSignatures(h, items, i, done, sigs) ==
    IF i > Len(items)
    THEN sigs
    ELSE LET p == items[i][1]
         IN  IF HasUnmarkedChild(h, p, done)
             THEN CollectSignatures(h, items, i + 1, done, sigs)
             ELSE CollectSignatures(h, items, i + 1, done,
                      DictSet(sigs, Signature(h, p),
                              Append(DictGet(sigs, Signature(h, p), <<>>), p)))

\* lines 214-221: a state leaves the queue on the right and is marked.
CompressPop ==
    /\ pc = "loop"
    /\ queue # <<>>
    /\ LET state == queue[Len(queue)]
           sigs  == CollectSignatures(Heap, parents[state], 1,
                                      marked \cup {state}, <<>>)
       IN  /\ queue' = SubSeq(queue, 1, Len(queue) - 1)
           /\ marked' = marked \cup {state}
           /\ signatures' = sigs
           /\ pc' = IF sigs = <<>> THEN "loop" ELSE "groups"
    /\ UNCHANGED <<graph, compressed, mode, total, entry, runs, fused, gen,
                   lexicon, op, arg, known, err>>

\* lines 225-228: a group of several states is merged.
GroupIsMerged(states) == Len(states) > 1

\* lines 222-229: the next group of the dict is merged, or taken as it is,
\* and enters the queue on the left.
CompressGroup ==
    /\ pc = "groups"
    /\ signatures # <<>>
    /\ LET states == signatures[1][2]
           r == IF GroupIsMerged(states)
                THEN merge_states(Heap, states)
                ELSE [h |-> Heap, err |-> "none", new_state |-> states[1]]
       IN  /\ SetHeap(r.h)
           /\ err' = r.err
           /\ IF r.err = "none"
              THEN /\ queue' = <<r.new_state>> \o queue
                   /\ signatures' = Tail(signatures)
                   /\ pc' = IF Tail(signatures) = <<>> THEN "loop" ELSE "groups"
              ELSE /\ queue' = <<>>
                   /\ signatures' = <<>>
                   /\ pc' = "idle"
           /\ fused' = IF GroupIsMerged(states)
                       THEN fused \cup Range(states) ELSE fused
           /\ arg' = IF GroupIsMerged(states) THEN states ELSE arg
    /\ UNCHANGED <<initial_state, compressed, mode, marked, total, entry,
                   runs, gen, lexicon, op, known>>

\* lines 208 and 232: the queue is empty.
CompressFinish ==
    /\ pc = "loop"
    /\ queue = <<>>
    /\ compressed' = TRUE
    /\ pc' = "idle"
    /\ UNCHANGED <<graph, mode, queue, marked, signatures, total, entry,
                   runs, fused, gen, lexicon, op, arg, known, err>>

----------------------------------------------------------------------------
(* An automaton filled by add_word and then compressed once.                *)

Next ==
    \/ \E word \in Words : AddWord(word)
    \/ ~compressed /\ CompressStart
    \/ CompressPop
    \/ CompressGroup
    \/ CompressFinish

Spec == Init /\ [][Next]_vars

\* compress() is a loop of one thread: once called, it runs on until it
\* returns or raises.
\* lines 222-229, seen from the dict of signatures: its first group is
\* taken, or the call ends with the error of merge_states.  Every step of
\* CompressGroup is such a step, and no other step is.
GroupTaken == pc = "groups" /\ signatures' \in {Tail(signatures), <<>>}

SpecFair ==
    /\ Spec
    /\ WF_vars(CompressPop)
    /\ WF_signatures(GroupTaken)
    /\ WF_vars(CompressFinish)

----------------------------------------------------------------------------
(* A client that fills an automaton and then calls merge_states itself,     *)
(* once, on a list of states of the automaton.                              *)

RECURSIVE ListsOver(_, _)
ListsOver(S, n) ==
    IF n = 0 THEN {<<>>}
    ELSE ListsOver(S, n - 1) \cup
         {Append(l, s) : l \in {x \in ListsOver(S, n - 1) : Len(x) = n - 1},
                         s \in S}

ClientAddWord(word) ==
    /\ op # "merge_states"
    /\ Cardinality(lexicon \cup {word}) <= MaxClientWords
    /\ AddWordHeap(word).count <= MaxClientStates
    /\ AddWord(word)

MergeCall(states) ==
    /\ pc = "idle"
    /\ op # "merge_states"
    /\ LET r == merge_states(Heap, states)
       IN  /\ SetHeap(r.h)
           /\ err' = r.err
    /\ op' = "merge_states"
    /\ arg' = states
    /\ UNCHANGED <<initial_state, compressed, mode, pc, queue, marked,
                   signatures, total, entry, runs, fused, gen, lexicon,
                   known>>

NextMerge ==
    \/ \E word \in Words : ClientAddWord(word)
    \/ \E states \in ListsOver(0..(count - 1), MaxMergeLen) : MergeCall(states)

SpecMerge == Init /\ [][NextMerge]_vars

----------------------------------------------------------------------------
(* Properties.                                                              *)

\* The words accept_word is asked about: the words add_word may be given
\* and every word one letter longer.
Probes == Words \cup WordsOfLen(MaxLen + 1)

\* No call is in progress: the automaton is as a client sees it.
AtRest == pc = "idle"

\* compress() has run to its end.
Minimized == compressed /\ pc = "idle"

\* s is a proper prefix of w.
IsProperPrefix(s, w) == Len(s) < Len(w) /\ SubSeq(w, 1, Len(s)) = s

\* The (letter, target) pairs of a state, without their order.
TransitionSet(n) == Range(transitions[n])

\* The states with a transition into n.
SourcesOf(n) ==
    {p \in DOMAIN transitions :
        \E i \in 1..Len(transitions[p]) : transitions[p][i][2] = n}

\* C1: every word given to add_word is accepted by accept_word, before
\* compress() and after compress() has completed.
C1_InsertedWordsAccepted ==
    AtRest => \A w \in lexicon : accept_word(w)

\* A compressed automaton of at least three words, with fewer states than
\* the trie had, accepts its words.
C1_Witness ==
    /\ Minimized
    /\ Cardinality(lexicon) >= 3
    /\ count_states < total
    /\ \A w \in lexicon : accept_word(w)

\* C2: no word that was never given to add_word is accepted, before
\* compress() and after compress() has completed: prefixes and extensions
\* of inserted words included.
C2_OtherWordsRejected ==
    AtRest => \A w \in Probes \ lexicon : ~accept_word(w)

\* A compressed automaton with merged states rejects a proper prefix and an
\* extension of one of its words.
C2_Witness ==
    /\ Minimized
    /\ count_states < total
    /\ \E w \in lexicon :
          /\ \E s \in Words \ lexicon : IsProperPrefix(s, w) /\ ~accept_word(s)
          /\ \E x \in Probes \ lexicon : IsProperPrefix(w, x) /\ ~accept_word(x)

\* C3: after compress(), no two distinct states reachable from the initial
\* state have the same is_final and the same set of (letter, target)
\* transitions, whatever the order in which the transitions were added.
C3_NoTwoEquivalentStates ==
    Minimized =>
        \A m, n \in Reachable :
            (m # n) =>
                ~(/\ is_final[m] = is_final[n]
                  /\ TransitionSet(m) = TransitionSet(n))

\* C4: count_words() is the number of distinct words given to add_word,
\* before compress() and after it.
C4_CountWordsIsLexiconSize ==
    AtRest => count_words = Cardinality(lexicon)

\* A compressed automaton with more words than states: states are shared
\* by several paths, and each word is still counted once.
C4_Witness ==
    /\ Minimized
    /\ count_states < Cardinality(lexicon)
    /\ count_words = Cardinality(lexicon)

\* C5: once compress() has completed, every add_word call raises
\* RuntimeError and changes no state, transition or acceptance flag.
C5_AddWordAfterCompressFails ==
    [][(compressed /\ op' = "add_word") =>
           /\ err' = "RuntimeError"
           /\ UNCHANGED <<is_final, transitions, parents, count,
                          initial_state, compressed>>]_vars

\* add_word was refused on a compressed automaton, for a word of its
\* language.
C5_Witness ==
    /\ Minimized
    /\ op = "add_word"
    /\ err = "RuntimeError"
    /\ known
    /\ Cardinality(lexicon) >= 2

\* The states that exist before a step.
OldStates == 0..(count - 1)

\* The heap after a step, and the queries on it.
HeapAfter == [is_final |-> is_final', number |-> number',
              transitions |-> transitions', parents |-> parents',
              count |-> count']

ReachableAfter == Range(MarkOrder(HeapAfter, initial_state'))

AcceptsAfter(word) == AcceptFrom(HeapAfter, initial_state', word)

\* The list passed to merge_states has members of differing is_final.
MixedAcceptance(states) ==
    \E k \in 1..Len(states) : is_final[states[k]] # is_final[states[1]]

\* C6: a merge_states call that fails, for any of its causes, leaves the
\* transitions map and the parents map of every state as they were.
C6_FailedMergeChangesNothing ==
    [][(op' = "merge_states" /\ err' # "none") =>
           \A n \in OldStates :
               /\ transitions'[n] = transitions[n]
               /\ parents'[n] = parents[n]]_vars

\* C7: merge_states on an empty list, or on a list whose members differ in
\* is_final, raises ValueError, and no new state becomes reachable.
C7_BadArgumentIsValueError ==
    [][(op' = "merge_states" /\ (Len(arg') = 0 \/ MixedAcceptance(arg'))) =>
           /\ err' = "ValueError"
           /\ ReachableAfter \subseteq Reachable]_vars

\* merge_states has refused an accepting and a non accepting state.
C7_Witness ==
    /\ op = "merge_states"
    /\ err = "ValueError"
    /\ Len(arg) = 2
    /\ is_final[arg[1]] # is_final[arg[2]]
    /\ Range(arg) \subseteq Reachable

\* C8: before compress(), add_word of a word that was inserted already
\* changes nothing: the reachable states, the transitions, count_states(),
\* count_words() and the result of accept_word for every word stay the same.
C8_RepeatedAddWordIsIdempotent ==
    [][(~compressed /\ op' = "add_word" /\ known') =>
           /\ ReachableAfter = Reachable
           /\ transitions' = transitions
           /\ is_final' = is_final
           /\ CountStatesOf(HeapAfter, initial_state') = count_states
           /\ CountWordsOf(HeapAfter, initial_state') = count_words
           /\ \A w \in Probes : AcceptsAfter(w) = accept_word(w)]_vars

\* A word of a lexicon of several words has been given to add_word again.
C8_Witness ==
    /\ ~compressed
    /\ op = "add_word"
    /\ err = "none"
    /\ known
    /\ Cardinality(lexicon) >= 2
    /\ count_states >= 4

\* C9: count_states() after compress() is at most count_states() on entry
\* to compress().
C9_CompressNeverAddsStates ==
    Minimized => count_states <= total

\* compress() has removed at least two states.
C9_Witness ==
    /\ Minimized
    /\ count_states + 2 <= total

\* The states reached from the states of S by one or more transitions.
RECURSIVE Closure(_, _)
Closure(frontier, seen) ==
    IF frontier \subseteq seen
    THEN seen
    ELSE Closure(UNION {Range(DictValues(transitions[n])) : n \in frontier},
                 seen \cup frontier)

Descendants(n) == Closure(Range(DictValues(transitions[n])), {})

Acyclic == \A n \in Reachable : n \notin Descendants(n)

\* C10: the graph reachable from the initial state is acyclic in every
\* reachable state: after each add_word and after each merge_states call
\* of compress().
C10_AlwaysAcyclic == Acyclic

\* Inside compress(), after a merge, a state is the target of transitions
\* of two reachable states.
C10_Witness ==
    /\ pc \in {"loop", "groups"}
    /\ \E n \in Reachable : Cardinality(SourcesOf(n) \cap Reachable) >= 2
    /\ \E n \in Reachable : Len(transitions[n]) >= 2
    /\ Acyclic

----------------------------------------------------------------------------
(* A client that fills a small automaton and calls compress() on it,        *)
(* again and again: compress() does not look at the compressed flag.        *)

CompressCall ==
    /\ runs < MaxRuns
    /\ CompressStart

NextAgain ==
    \/ \E word \in Words : ClientAddWord(word)
    \/ CompressCall
    \/ CompressPop
    \/ CompressGroup
    \/ CompressFinish

SpecAgain == Init /\ [][NextAgain]_vars

----------------------------------------------------------------------------
(* A client that iterates over the automaton with a generator of its own,   *)
(* one next() at a time, and calls count_states() or count_words() before   *)
(* or between the steps.  The body of a generator runs only inside next();  *)
(* the loop of lines 75-86 reads self.mode again at each turn.              *)

\* iter(automaton): a generator is created, no line of its body has run.
IterCall ==
    /\ pc = "idle"
    /\ gen.status = "none"
    /\ gen' = [gen EXCEPT !.status = "created"]
    /\ op' = "iter"
    /\ UNCHANGED <<graph, compressed, mode, pc, queue, marked, signatures,
                   total, entry, runs, fused, lexicon, arg, known, err>>

\* lines 67-73, run by the first next(): the stack, and the marked set in
\* mode 'mark' only.
Started(g, m, root) ==
    IF m = "mark"
    THEN [g EXCEPT !.mode = m, !.stack = <<root>>, !.marked = {}]
    ELSE [g EXCEPT !.mode = m, !.stack = <<<<<<>>, root>>>>]

\* lines 75-86, from the top of the loop to the next yield, to the end of
\* the loop or to an error, with m the value of self.mode.  In mode 'mark'
\* line 78 reads marked, which does not exist in a generator started in
\* mode 'history' (UnboundLocalError); in mode 'history' line 83 unpacks
\* what it pops, which is a state and not a pair in a generator started in
\* mode 'mark' (TypeError).
RECURSIVE Resumed(_, _, _)
Resumed(h, g, m) ==
    IF g.stack = <<>>
    THEN [g EXCEPT !.status = "done"]
    ELSE LET top  == g.stack[Len(g.stack)]
             rest == SubSeq(g.stack, 1, Len(g.stack) - 1)
         IN  IF m # g.mode
             THEN [g EXCEPT !.status = "error", !.stack = rest]
             ELSE IF m = "mark"
             THEN IF top \in g.marked
                  THEN Resumed(h, [g EXCEPT !.stack = rest], m)
                  ELSE [g EXCEPT !.status = "suspended",
                                 !.marked = g.marked \cup {top},
                                 !.stack = rest \o DictValues(h.transitions[top]),
                                 !.yielded = Append(g.yielded, top)]
             ELSE LET items == h.transitions[top[2]]
                      push  == [i \in 1..Len(items) |->
                                  <<Append(top[1], items[i][1]), items[i][2]>>]
                  IN  [g EXCEPT !.status = "suspended",
                                !.stack = rest \o push,
                                !.yielded = Append(g.yielded, top)]

\* next(generator)
IterNext ==
    /\ pc = "idle"
    /\ gen.status \in {"created", "suspended"}
    /\ gen' = Resumed(Heap,
                      IF gen.status = "created"
                      THEN Started(gen, mode, initial_state) ELSE gen,
                      mode)
    /\ op' = "next"
    /\ UNCHANGED <<graph, compressed, mode, pc, queue, marked, signatures,
                   total, entry, runs, fused, lexicon, arg, known, err>>

\* lines 145-149: count_states() selects mode 'mark' and runs a traversal
\* of its own to its end.
CountStatesCall ==
    /\ pc = "idle"
    /\ gen.status \notin {"done", "error"}
    /\ mode' = "mark"
    /\ op' = "count_states"
    /\ UNCHANGED <<graph, compressed, pc, queue, marked, signatures, total,
                   entry, runs, fused, gen, lexicon, arg, known, err>>

\* lines 134-139: count_words() selects mode 'history' and runs a traversal
\* of its own to its end.
CountWordsCall ==
    /\ pc = "idle"
    /\ gen.status \notin {"done", "error"}
    /\ mode' = "history"
    /\ op' = "count_words"
    /\ UNCHANGED <<graph, compressed, pc, queue, marked, signatures, total,
                   entry, runs, fused, gen, lexicon, arg, known, err>>

\* The automaton is small, and is not changed once the generator exists.
NextIter ==
    \/ gen.status = "none" /\ \E word \in Words : ClientAddWord(word)
    \/ gen.status = "none" /\ ~compressed /\ CompressStart
    \/ CompressPop
    \/ CompressGroup
    \/ CompressFinish
    \/ IterCall
    \/ IterNext
    \/ CountStatesCall
    \/ CountWordsCall

SpecIter == Init /\ [][NextIter]_vars

----------------------------------------------------------------------------
(* Automaton.renumber_states.  The loop body of line 158 changes the number *)
(* of the state the generator has just added to its marked set, and the     *)
(* number is the hash of the state (lines 41-42).  A Python set keeps, with *)
(* each member, the hash the member had when it was added, and finds a      *)
(* state only under that hash: the marked set is modelled as a set of       *)
(* <<state, hash when added>> pairs.                                        *)

\* line 78: state in marked.
InMarked(entries, num, state) == <<state, num[state]>> \in entries

\* lines 76-81 and 157-159: the traversal and the numbering, from a stack,
\* the marked set and the value of the local variable count.
RECURSIVE RenumberLoop(_, _, _, _, _)
RenumberLoop(h, num, stack, entries, cnt) ==
    IF stack = <<>>
    THEN [number |-> num, count |-> cnt]
    ELSE LET state == stack[Len(stack)]
             rest  == SubSeq(stack, 1, Len(stack) - 1)
         IN  IF InMarked(entries, num, state)
             THEN RenumberLoop(h, num, rest, entries, cnt)
             ELSE RenumberLoop(h, [num EXCEPT ![state] = cnt],
                               rest \o DictValues(h.transitions[state]),
                               entries \cup {<<state, num[state]>>}, cnt + 1)

\* lines 151-160.  State.count becomes the number of states numbered.
RenumberStates ==
    /\ pc = "idle"
    /\ LET r == RenumberLoop(Heap, number, <<initial_state>>, {}, 0)
       IN  /\ number' = r.number
           /\ count' = r.count
    /\ mode' = "mark"
    /\ op' = "renumber_states"
    /\ UNCHANGED <<is_final, transitions, parents, initial_state, compressed,
                   pc, queue, marked, signatures, total, entry, runs, fused,
                   gen, lexicon, arg, known, err>>

\* An automaton filled and perhaps compressed, then renumbered.  The model
\* names a state by the value of State.count at its creation, so it creates
\* no state after renumber_states has set State.count.
NextRenumber ==
    \/ op # "renumber_states" /\ Next
    \/ op # "renumber_states" /\ RenumberStates

SpecRenumber == Init /\ [][NextRenumber]_vars

----------------------------------------------------------------------------
\* The members of the lists of a dict of signatures, group after group.
RECURSIVE Members(_)
Members(sigs) ==
    IF sigs = <<>> THEN <<>> ELSE sigs[1][2] \o Members(Tail(sigs))

NoDuplicates(list) == Cardinality(Range(list)) = Len(list)

\* C11: during one compress() of an automaton built by add_word, no state
\* is popped from the queue more than once, none enters the queue more than
\* once, and none is passed to merge_states more than once: the states
\* waiting in the queue are distinct and unmarked, the leaves are distinct,
\* and the states of the groups waiting to be merged or enqueued are
\* distinct, unmarked, not in the queue and not yet merged.
C11_EachStateProcessedOnce ==
    /\ NoDuplicates(queue)
    /\ Range(queue) \cap marked = {}
    /\ pc = "idle" /\ ~compressed => NoDuplicates(get_leaves)
    /\ pc # "idle" =>
          /\ NoDuplicates(Members(signatures))
          /\ Range(Members(signatures)) \cap
                 (marked \cup Range(queue) \cup fused) = {}

\* Inside compress(), a state with one child processed and another one
\* still waiting: it was skipped at line 218 and is met again later.
C11_Witness ==
    /\ pc = "loop"
    /\ fused # {}
    /\ \E p \in Reachable \ marked :
          /\ \E i \in 1..Len(transitions[p]) : transitions[p][i][2] \in marked
          /\ \E i \in 1..Len(transitions[p]) :
                transitions[p][i][2] \notin marked

----------------------------------------------------------------------------
\* C12: compress() terminates: its queue becomes empty and compressed is
\* set; and when it has, every state reachable from the initial state is
\* in marked, or the automaton has no transition and its only reachable
\* state is the initial state.
C12_CompressTerminatesAllMarked ==
    /\ (pc # "idle") ~> (pc = "idle" /\ compressed /\ queue = <<>>)
    /\ [](Minimized =>
            \/ Reachable \subseteq marked
            \/ /\ Reachable = {initial_state}
               /\ transitions[initial_state] = <<>>)

\* compress() has returned on an automaton of several states, the initial
\* state among the marked ones.
C12_Witness ==
    /\ Minimized
    /\ initial_state \in marked
    /\ Cardinality(Reachable) >= 3
    /\ Reachable \subseteq marked

----------------------------------------------------------------------------
\* A step in which a merge_states call returns: the call of line 206 or of
\* line 226 of compress(), or the call of a client.  The list of the call
\* is arg' and the new state is the one allocated by the step.
MergeReturns ==
    /\ op' \in {"compress", "merge_states"}
    /\ count' = count + 1
    /\ err' = "none"

\* C13: when merge_states returns, for every state p and letter l recorded
\* under p in the parents of a state of the list, the transition of p by l
\* leads to the new state and l is recorded under p in the parents of the
\* new state; also when two states of the list have the same parent under
\* different letters.
C13_MergedParentsComplete ==
    [][MergeReturns =>
        \A s \in Range(arg') :
          \A i \in 1..Len(parents[s]) :
            \A l \in Range(parents[s][i][2]) :
              LET p == parents[s][i][1]
              IN  /\ DictGet(transitions'[p], l, None) = count
                  /\ l \in Range(DictGet(parents'[count], p, <<>>))]_vars

----------------------------------------------------------------------------
\* C14: in every state after an add_word or after a completed merge_states
\* the parents of the reachable states are the exact inverse of their
\* transitions: for reachable p, n and a letter l, the transition of p by
\* l leads to n if and only if l is listed under p in the parents of n; and
\* no state discarded by a merge is the target of a transition or a key of
\* the parents of a reachable state.
C14_ParentsInverseOfTransitions ==
    err = "none" =>
      /\ \A p \in Reachable : \A n \in Reachable : \A l \in Alphabet :
            DictGet(transitions[p], l, None) = n
              <=> l \in Range(DictGet(parents[n], p, <<>>))
      /\ \A n \in Reachable :
            /\ Range(DictValues(transitions[n])) \cap fused = {}
            /\ DictKeys(parents[n]) \cap fused = {}

----------------------------------------------------------------------------
\* C15: compress() called on an automaton whose compressed flag is set is
\* rejected or has no effect: when the call is over, the reachable states,
\* their transitions and count_states() are what they were when it began.
C15_SecondCompressChangesNothing ==
    (pc = "idle" /\ op = "compress" /\ entry.compressed) =>
      /\ Reachable = entry.states
      /\ \A n \in Reachable : transitions[n] = entry.transitions[n]
      /\ count_states = total

----------------------------------------------------------------------------
\* C16: compress() on an automaton into which no word was inserted raises
\* no error, and once it has returned count_states() is 1, count_words()
\* is 0, accept_word is false for every word and the initial state is
\* still the entry state, the first state created.
C16_CompressOfEmptyAutomaton ==
    (lexicon = {} /\ op = "compress") =>
      /\ err = "none"
      /\ initial_state = 0
      /\ pc = "idle" =>
            /\ compressed
            /\ count_states = 1
            /\ count_words = 0
            /\ Reachable = {initial_state}
            /\ \A w \in Probes : ~accept_word(w)

\* compress() has returned on the automaton without words; it created
\* one state, merged from the initial state as the only leaf.
C16_Witness ==
    /\ lexicon = {}
    /\ Minimized
    /\ fused = {initial_state}
    /\ count = 2

----------------------------------------------------------------------------
\* The transitions into state n, as (source, letter) pairs.
Incoming(n) ==
    {<<p, l>> \in Reachable \X Alphabet : DictGet(transitions[p], l, None) = n}

\* C17: a 'mark' traversal yields every state reachable from the initial
\* state, and each of them once, before, during and after compress().
C17_MarkYieldsEachStateOnce ==
    /\ Range(MarkOrder(Heap, initial_state))
          = {initial_state} \cup Descendants(initial_state)
    /\ NoDuplicates(MarkOrder(Heap, initial_state))
    /\ count_states = Cardinality({initial_state} \cup Descendants(initial_state))

\* After compress(), a state is the target of two transitions of one state
\* and a state is the target of transitions of two states.
C17_Witness ==
    /\ Minimized
    /\ \E n \in Reachable : \E p \in Reachable :
          Cardinality({e \in Incoming(n) : e[1] = p}) >= 2
    /\ \E n \in Reachable :
          Cardinality({e[1] : e \in Incoming(n)}) >= 2

----------------------------------------------------------------------------
\* The states of a list agree on the target of every letter they share.
TargetsAgree(states) ==
    \A s \in Range(states) : \A u \in Range(states) : \A l \in Alphabet :
        (DictHas(transitions[s], l) /\ DictHas(transitions[u], l))
          => DictGet(transitions[s], l, None) = DictGet(transitions[u], l, None)

\* C19: compress() on an automaton built by add_word calls alone never
\* fails: the leaves of the trie are a non-empty list of states of the same
\* is_final, the states of a group of the same signature agree on is_final
\* and on the target of every letter, no merge_states call of compress()
\* raises, and compress() never returns with compressed unset.
C19_CompressNeverFails ==
    /\ (pc = "idle" /\ ~compressed) =>
          /\ get_leaves # <<>>
          /\ ~MixedAcceptance(get_leaves)
          /\ op # "compress"
          /\ fused = {}
    /\ \A g \in 1..Len(signatures) :
          /\ signatures[g][2] # <<>>
          /\ ~MixedAcceptance(signatures[g][2])
          /\ TargetsAgree(signatures[g][2])
    /\ op = "compress" => err = "none"

\* compress() has returned after merging the leaves and then two accepting
\* states that have transitions.
C19_Witness ==
    /\ Minimized
    /\ err = "none"
    /\ \E n \in fused : \E u \in fused \ {n} :
          /\ is_final[n] /\ transitions[n] # <<>>
          /\ is_final[u] /\ transitions[u] # <<>>

----------------------------------------------------------------------------
\* C18: renumber_states() on an automaton of n reachable states, a trie or
\* a compressed graph, visits each state once and gives the states the n
\* distinct numbers 0..n-1, and changes no transition, no acceptance flag
\* and not the initial state, hence no result of a later query.
C18_RenumberIsConsecutive ==
    [][op' = "renumber_states" =>
        LET n == Cardinality(Reachable)
        IN  /\ count' = n
            /\ {number'[s] : s \in Reachable} = 0..(n - 1)
            /\ transitions' = transitions
            /\ is_final' = is_final
            /\ initial_state' = initial_state]_vars

----------------------------------------------------------------------------
\* What a traversal in mode m yields when it runs alone.
Uninterrupted(m) ==
    IF m = "mark"
    THEN MarkOrder(Heap, initial_state)
    ELSE HistoryOrder(Heap, initial_state)

\* C20: an iteration started in one mode is not disturbed by a call, made
\* between two of its steps, that selects the other mode: it raises no
\* error and, when it ends, it has yielded the sequence of a traversal in
\* the mode it was started in.
C20_IterationKeepsItsMode ==
    /\ gen.status # "error"
    /\ gen.status = "done" => gen.yielded = Uninterrupted(gen.mode)

====
